---- MODULE Spec2Model ----
(***************************************************************************)
(* A model of notepy-online's note store (src/src/notepy_online/core.py)   *)
(* and of the adapters that drive it (server.py, cli.py).                  *)
(*                                                                         *)
(* Text is a sequence of one-character tokens, so that lower(), strip(),   *)
(* substring search, the HTML-to-Markdown conversion and the newline       *)
(* translation of text-mode file I/O are computed, not assumed.            *)
(* A datetime is [t, tz]: t the instant, tz "utc" (aware) or "naive".      *)
(* The in-memory dict is a sequence of entries in insertion order, as a    *)
(* Python dict is.  An optional argument is <<>> (None) or <<v>>.          *)
(***************************************************************************)
EXTENDS Integers, Sequences, FiniteSets, TLC

VARIABLES notes,      \* NoteManager.notes: entries [key, note] in dict order
          meta,       \* notes.json: [kind, entries]
          files,      \* the <key>.md content files: key -> text as stored
          clock,      \* the wall clock read by datetime.now(timezone.utc)
          last,       \* the last call made on the store: [op, ret, raised, at]
          fault,      \* what the file system refuses: "none", "write", "unlink", "content"
          exported,   \* the file export_notes writes: None or Some(entries)
          requests    \* the server's handlers: request -> [pc, status, call]

vars == <<notes, meta, files, clock, last, fault, exported, requests>>

\* What the calls on the store leave alone: the state of the file system, the
\* export file and the handlers of the server.
env == <<fault, exported, requests>>

\* ------------------------------------------------------------------ bounds

MaxClock == 1

\* The uuid4 values create_note can draw, and the ids import files embed.
Ids == {"n1", "n2"}

None == <<>>
Some(v) == <<v>>

\* ------------------------------------------------------------------ text

SP == " "
CR == "CR"
LF == "LF"
Whitespace == {SP, CR, LF}
TagOpen == "<p>"
TagClose == "</p>"
HtmlTags == {TagOpen, TagClose}

\* str.lower() on one character.
LowerChar(c) ==
  CASE c = "A" -> "a"
    [] c = "B" -> "b"
    [] c = "X" -> "x"
    [] OTHER -> c

\* str.lower()
Lower(s) == [i \in 1..Len(s) |-> LowerChar(s[i])]

\* `q in s` for two str: q occurs in s as a contiguous run.
Contains(s, q) ==
  \E i \in 0..(Len(s) - Len(q)) : \A j \in 1..Len(q) : s[i + j] = q[j]

RECURSIVE LStrip(_)
LStrip(s) ==
  IF s # <<>> /\ Head(s) \in Whitespace THEN LStrip(Tail(s)) ELSE s

RECURSIVE RStrip(_)
RStrip(s) ==
  IF s # <<>> /\ s[Len(s)] \in Whitespace THEN RStrip(SubSeq(s, 1, Len(s) - 1)) ELSE s

\* str.strip()
Strip(s) == LStrip(RStrip(s))

\* html2text.HTML2Text().handle as core.py configures it: markup is dropped,
\* a run of whitespace in the text becomes one space, the paragraph is closed
\* with a blank line.
RECURSIVE DropTags(_)
DropTags(s) ==
  IF s = <<>> THEN <<>>
  ELSE IF Head(s) \in HtmlTags THEN DropTags(Tail(s))
  ELSE <<Head(s)>> \o DropTags(Tail(s))

RECURSIVE CollapseWs(_)
CollapseWs(s) ==
  IF s = <<>> THEN <<>>
  ELSE IF Head(s) \in Whitespace
       THEN IF Len(s) > 1 /\ s[2] \in Whitespace
            THEN CollapseWs(Tail(s))
            ELSE <<SP>> \o CollapseWs(Tail(s))
  ELSE <<Head(s)>> \o CollapseWs(Tail(s))

Html2TextHandle(s) == CollapseWs(DropTags(s)) \o <<LF, LF>>

\* re.sub(r"\n{3,}", "\n\n", s)
RECURSIVE SquashNewlines(_)
SquashNewlines(s) ==
  IF Len(s) >= 3 /\ s[1] = LF /\ s[2] = LF /\ s[3] = LF THEN SquashNewlines(Tail(s))
  ELSE IF s = <<>> THEN <<>>
  ELSE <<Head(s)>> \o SquashNewlines(Tail(s))

html_to_markdown(html_content) ==
  IF html_content = <<>> \/ Strip(html_content) = <<>> THEN <<>>
  ELSE Strip(SquashNewlines(SquashNewlines(Html2TextHandle(html_content))))

\* open(path, "w", encoding="utf-8").write(s) on POSIX: "\n" is written as is.
WriteText(s) == s

\* open(path, "r", encoding="utf-8").read(): universal newlines, "\r\n" and a
\* lone "\r" are read as "\n".
RECURSIVE ReadText(_)
ReadText(b) ==
  IF b = <<>> THEN <<>>
  ELSE IF Head(b) = CR
       THEN IF Len(b) > 1 /\ b[2] = LF
            THEN <<LF>> \o ReadText(Tail(Tail(b)))
            ELSE <<LF>> \o ReadText(Tail(b))
  ELSE <<Head(b)>> \o ReadText(Tail(b))

\* -------------------------------------------------------------- datetimes

Utc(t) == [t |-> t, tz |-> "utc"]
Naive(t) == [t |-> t, tz |-> "naive"]

\* isoformat without the UTC offset: the variant the round trip must tell
\* from isoformat.
isoformat_NoOffset(dt) == <<dt.t, "">>

\* datetime.isoformat(): the instant, then the UTC offset of an aware value
\* ("" for a naive one).
isoformat(dt) == <<dt.t, IF dt.tz = "utc" THEN "+00:00" ELSE "">>

\* fromisoformat forgetting the offset: the variant a reload must be told from.
fromisoformat_Naive(s) == Naive(s[1])

\* datetime.fromisoformat()
fromisoformat(s) == IF s[2] = "+00:00" THEN Utc(s[1]) ELSE Naive(s[1])

\* datetime.now(timezone.utc) read again within one call: the clock may have
\* advanced by d since the reading c; the model's clock stops at MaxClock.
Now(c, d) == IF c + d <= MaxClock THEN c + d ELSE c

\* x < y on two datetimes raises TypeError when one is naive and one aware.
Comparable(x, y) == x.tz = y.tz

\* ------------------------------------------------------------------- Note

\* Note.__init__ losing the tags it is given: the variant the property of
\* create_note must tell from NoteInit.
NoteInit_DropsTags(title, content, tags, note_id, created_at, updated_at, uuid, t1, t2) ==
  [ title      |-> title,
    content    |-> content,
    tags       |-> <<>>,
    note_id    |-> IF note_id = None \/ note_id[1] = "" THEN uuid ELSE note_id[1],
    created_at |-> IF created_at = None THEN Utc(t1) ELSE created_at[1],
    updated_at |-> IF updated_at = None THEN Utc(t2) ELSE updated_at[1] ]

\* Note.__init__: `tags or []`, `note_id or str(uuid.uuid4())`,
\* `created_at or now()`, `updated_at or now()`: now() is called once per
\* missing timestamp (t1, then t2).
NoteInit(title, content, tags, note_id, created_at, updated_at, uuid, t1, t2) ==
  [ title      |-> title,
    content    |-> content,
    tags       |-> IF tags = None THEN <<>> ELSE tags[1],
    note_id    |-> IF note_id = None \/ note_id[1] = "" THEN uuid ELSE note_id[1],
    created_at |-> IF created_at = None THEN Utc(t1) ELSE created_at[1],
    updated_at |-> IF updated_at = None THEN Utc(t2) ELSE updated_at[1] ]

to_dict(n) ==
  [ note_id    |-> n.note_id,
    title      |-> n.title,
    content    |-> n.content,
    tags       |-> n.tags,
    created_at |-> isoformat(n.created_at),
    updated_at |-> isoformat(n.updated_at) ]

\* The keys from_dict reads with data[...]: a missing one raises KeyError.
RequiredKeys == {"title", "note_id", "created_at", "updated_at"}

\* A string datetime.fromisoformat parses is modelled as <<instant, offset>>;
\* on any other it raises ValueError.
NotIsoFormat == <<"nope">>
IsIsoFormat(s) == Len(s) = 2

\* from_dict raises KeyError on a missing key and ValueError on a timestamp
\* that does not parse; note_data.get of an entry that is no JSON object
\* raises AttributeError in the same try block.
from_dict_raises(data) ==
  \/ ~(RequiredKeys \subseteq DOMAIN data)
  \/ ~IsIsoFormat(data.created_at)
  \/ ~IsIsoFormat(data.updated_at)

from_dict(data, content, uuid) ==
  NoteInit(data.title,
           IF content # <<>> THEN content
           ELSE IF "content" \in DOMAIN data THEN data.content ELSE <<>>,
           Some(IF "tags" \in DOMAIN data THEN data.tags ELSE <<>>),
           Some(data.note_id),
           Some(fromisoformat(data.created_at)),
           Some(fromisoformat(data.updated_at)),
           uuid, 0, 0)

\* Note.update emptying the tags when none are given: the variant the property
\* of update_note must tell from Note_update.
Note_update_ClearsTags(n, title, content, tags, t) ==
  [n EXCEPT !.title = IF title # None THEN title[1] ELSE @,
            !.content = IF content # None THEN html_to_markdown(content[1]) ELSE @,
            !.tags = IF tags # None THEN tags[1] ELSE <<>>,
            !.updated_at = Utc(t)]

\* Note.update
Note_update(n, title, content, tags, t) ==
  [n EXCEPT !.title = IF title # None THEN title[1] ELSE @,
            !.content = IF content # None THEN html_to_markdown(content[1]) ELSE @,
            !.tags = IF tags # None THEN tags[1] ELSE @,
            !.updated_at = Utc(t)]

InList(list, x) == \E i \in 1..Len(list) : list[i] = x

\* Note.add_tag without the membership test: the variant idempotence must
\* tell from Note_add_tag.
Note_add_tag_Always(n, tag, t) ==
  [n EXCEPT !.tags = Append(@, tag), !.updated_at = Utc(t)]

\* Note.add_tag putting the tag in place of the tags the note has: the variant
\* that loses another request's tag.
Note_add_tag_Only(n, tag, t) ==
  [n EXCEPT !.tags = <<tag>>, !.updated_at = Utc(t)]

\* Note.add_tag
Note_add_tag(n, tag, t) ==
  IF ~InList(n.tags, tag)
  THEN [n EXCEPT !.tags = Append(@, tag), !.updated_at = Utc(t)]
  ELSE n

\* list.remove(x): the first occurrence goes.
RECURSIVE ListRemove(_, _)
ListRemove(list, x) ==
  IF list = <<>> THEN <<>>
  ELSE IF Head(list) = x THEN Tail(list)
  ELSE <<Head(list)>> \o ListRemove(Tail(list), x)

\* Note.remove_tag setting updated_at whether or not the tag was there: the
\* variant the no-op must tell from Note_remove_tag.
Note_remove_tag_Touches(n, tag, t) ==
  [n EXCEPT !.tags = ListRemove(@, tag), !.updated_at = Utc(t)]

\* Note.remove_tag
Note_remove_tag(n, tag, t) ==
  IF InList(n.tags, tag)
  THEN [n EXCEPT !.tags = ListRemove(@, tag), !.updated_at = Utc(t)]
  ELSE n

\* Note.search_in_content
search_in_content(n, query) ==
  LET query_lower == Lower(query) IN
  \/ Contains(Lower(n.title), query_lower)
  \/ Contains(Lower(n.content), query_lower)
  \/ \E i \in 1..Len(n.tags) : Contains(Lower(n.tags[i]), query_lower)

\* ------------------------------------------------------------ NoteManager

Keys(ns) == {ns[i].key : i \in 1..Len(ns)}

KeyIndex(ns, k) == CHOOSE i \in 1..Len(ns) : ns[i].key = k

\* self.notes.get(note_id): <<>> is None.
DictGet(ns, k) == IF k \in Keys(ns) THEN Some(ns[KeyIndex(ns, k)].note) ELSE None

\* A dict that forgets what it held when a note is stored: the variant
\* concurrent creation must be told from.
DictSet_OnlyLast(ns, k, note) == <<[key |-> k, note |-> note]>>

\* A dict that keeps the note it has under a key: the variant overwriting
\* must be told from.
DictSet_KeepsOld(ns, k, note) ==
  IF k \in Keys(ns) THEN ns ELSE Append(ns, [key |-> k, note |-> note])

\* self.notes[k] = note: an existing key keeps its place, a new one goes last.
DictSet(ns, k, note) ==
  IF k \in Keys(ns)
  THEN [ns EXCEPT ![KeyIndex(ns, k)] = [key |-> k, note |-> note]]
  ELSE Append(ns, [key |-> k, note |-> note])

\* del that removes the first entry of the dict, whatever the key: the
\* variant the property of delete_note must tell from DictDel.
DictDel_First(ns, k) == Tail(ns)

\* del self.notes[k]
DictDel(ns, k) ==
  LET i == KeyIndex(ns, k) IN SubSeq(ns, 1, i - 1) \o SubSeq(ns, i + 1, Len(ns))

\* notes.json: absent, not parseable as JSON, or a JSON object whose entries
\* [key, data] keep the order they were written in.
AbsentFile == [kind |-> "absent", entries |-> <<>>]
CorruptFile == [kind |-> "corrupt", entries |-> <<>>]
JsonFile(entries) == [kind |-> "json", entries |-> entries]

\* NoteManager._load_note_content
load_note_content(fs, k) == IF k \in DOMAIN fs THEN ReadText(fs[k]) ELSE <<>>

\* A load that keeps the entries from_dict accepts and drops the others: the
\* variant all-or-nothing must be told from.
load_notes_Partial(m, fs, uuid) ==
  IF m.kind # "json" THEN <<>>
  ELSE LET Accepted(e) == ~from_dict_raises(e.data)
           kept == SelectSeq(m.entries, Accepted)
       IN [i \in 1..Len(kept) |->
             [key |-> kept[i].key,
              note |-> from_dict(kept[i].data, load_note_content(fs, kept[i].key), uuid)]]

\* NoteManager._load_notes: an absent file leaves the store empty; a file that
\* does not parse, or any entry from_dict raises on, empties it.
load_notes(m, fs, uuid) ==
  IF m.kind # "json" THEN <<>>
  ELSE IF \E i \in 1..Len(m.entries) : from_dict_raises(m.entries[i].data) THEN <<>>
  ELSE [i \in 1..Len(m.entries) |->
          [key |-> m.entries[i].key,
           note |-> from_dict(m.entries[i].data,
                              load_note_content(fs, m.entries[i].key), uuid)]]

\* A content that JSON gave as a number where a str is expected: json.dump
\* writes it, f.write(content) raises TypeError on it.
NotStr == "5"
IsStr(content) == \A i \in 1..Len(content) : content[i] # NotStr

\* NoteManager._save_note_content for every note of the store, in dict order:
\* open(content_file, "w") creates or empties the file, f.write raises on a
\* content that is not a str, and the loop stops at the first exception. When
\* the content files are read-only, open raises on the first one that exists
\* and leaves it as it is.
RECURSIVE save_content_files(_, _)
save_content_files(ns, fs) ==
  IF ns = <<>> THEN fs
  ELSE LET e == Head(ns)
           written == [k \in DOMAIN fs \cup {e.key} |->
                         IF k # e.key THEN fs[k]
                         ELSE IF IsStr(e.note.content) THEN WriteText(e.note.content)
                         ELSE <<>>]
       IN IF fault = "content" /\ e.key \in DOMAIN fs THEN fs
          ELSE IF IsStr(e.note.content) THEN save_content_files(Tail(ns), written)
          ELSE written

\* NoteManager._save_notes: notes.json is overwritten with every note's
\* to_dict, then every note's content file is written. When the file system
\* refuses writes, open(self.notes_file, "w") raises and nothing is written;
\* any exception leaves as RuntimeError (raised).
save_notes(ns, fs) ==
  IF fault = "write"
  THEN [ meta |-> meta, files |-> fs, raised |-> TRUE ]
  ELSE [ meta   |-> JsonFile([i \in 1..Len(ns) |->
                              [key |-> ns[i].key, data |-> to_dict(ns[i].note)]]),
         files  |-> save_content_files(ns, fs),
         raised |-> \E i \in 1..Len(ns) :
                       \/ ~IsStr(ns[i].note.content)
                       \/ fault = "content" /\ ns[i].key \in DOMAIN fs ]

\* content_file.unlink()
Unlink(fs, k) == [x \in DOMAIN fs \ {k} |-> fs[x]]

\* ----------------------------------------------------------------- inputs

Titles == {<<"A", "b">>, <<"x">>}
Contents == {<<>>, <<TagOpen, "b", TagClose>>}
TagLower == <<"x">>
TagUpper == <<"X">>
TagNames == {TagLower, TagUpper}
TagLists == {<<>>, <<TagLower>>}
Queries == {<<"x">>, <<"B">>, <<"a", "B">>}
\* The tag filters list_notes is given.
ListTags == {<<TagLower>>, <<TagUpper>>, <<TagLower, TagUpper>>}

Optional(S) == {None} \cup {Some(v) : v \in S}

\* An export of one note, as export_notes writes it.
Exported(id, title, content, tags, created, updated) ==
  [key |-> id,
   data |-> [note_id |-> id, title |-> title, content |-> content, tags |-> tags,
             created_at |-> created, updated_at |-> updated]]

\* The files import_notes is given: an export with aware timestamps and one with
\* naive timestamps (as in tests/test_core.py), the first with a CR LF in its content.
ImportAware == <<Exported("n1", <<"x">>, <<"b", CR, LF, "b">>, <<TagUpper>>, <<1, "+00:00">>, <<1, "+00:00">>)>>
ImportNaive == <<Exported("n2", <<"x">>, <<>>, <<TagLower>>, <<1, "">>, <<1, "">>)>>
ImportFiles == {ImportAware, ImportNaive}

EmptyFiles == [k \in {} |-> <<>>]

\* What `last` records of a call made when the clock read `at`: the value it
\* returned, or the exception it raised.
Returned(op, ret, at) == [op |-> op, ret |-> ret, raised |-> "", at |-> at]
Raised(op, exc, at) == [op |-> op, ret |-> None, raised |-> exc, at |-> at]

\* How a call that ends with _save_notes() leaves: with the RuntimeError of
\* _save_notes, or with its value.
Saved(op, ret, disk, at) ==
  IF disk.raised THEN Raised(op, "RuntimeError", at) ELSE Returned(op, ret, at)

\* The requests clients send to the server.
Requests == {"r1", "r2"}

\* ---------------------------------------------------------------- actions

Init ==
  /\ meta = AbsentFile
  /\ files = EmptyFiles
  /\ notes = load_notes(meta, files, "n1")
  /\ clock = 0
  /\ last = Returned("__init__", None, clock)
  /\ fault = "none"
  /\ exported = None
  /\ requests = [r \in Requests |-> [pc |-> "unsent", status |-> 0, call |-> <<>>]]

\* The ids no note of the store carries: what uuid4 draws from.
FreshIds == Ids \ (Keys(notes) \cup {notes[i].note.note_id : i \in 1..Len(notes)})

\* create_note taking the note out of the map again when the persist fails:
\* the variant the missing rollback must be told from.
create_note_RollsBack(title, content, tags, uuid, d) ==
  /\ uuid \in FreshIds
  /\ LET markdown_content == html_to_markdown(content)
         t1 == clock
         t2 == Now(t1, d)
         note == NoteInit(title, markdown_content, tags, None, None, None, uuid, t1, t2)
         ns == DictSet(notes, note.note_id, note)
         disk == save_notes(ns, files)
     IN /\ notes' = IF disk.raised THEN notes ELSE ns
        /\ meta' = disk.meta
        /\ files' = disk.files
        /\ clock' = t2
        /\ last' = Saved("create_note", note, disk, clock)

\* NoteManager.create_note
create_note(title, content, tags, uuid, d) ==
  /\ uuid \in FreshIds
  /\ LET markdown_content == html_to_markdown(content)
         t1 == clock
         t2 == Now(t1, d)
         note == NoteInit(title, markdown_content, tags, None, None, None, uuid, t1, t2)
         ns == DictSet(notes, note.note_id, note)
         disk == save_notes(ns, files)
     IN /\ notes' = ns
        /\ meta' = disk.meta
        /\ files' = disk.files
        /\ clock' = t2
        /\ last' = Saved("create_note", note, disk, clock)

\* NoteManager.get_note
get_note(note_id) ==
  /\ last' = Returned("get_note", DictGet(notes, note_id), clock)
  /\ UNCHANGED <<notes, meta, files, clock>>

\* update_note saving the store before it looks the id up: the variant the
\* not-found case must tell from update_note.
update_note_SavesFirst(note_id, title, content, tags) ==
  LET found == DictGet(notes, note_id) IN
  IF found # None
  THEN LET t == clock
           note == Note_update(found[1], title, content, tags, t)
           ns == DictSet(notes, note_id, note)
           disk == save_notes(ns, files)
       IN /\ notes' = ns
          /\ meta' = disk.meta
          /\ files' = disk.files
          /\ UNCHANGED clock
          /\ last' = Saved("update_note", Some(note), disk, clock)
  ELSE LET disk == save_notes(notes, files)
       IN /\ meta' = disk.meta
          /\ files' = disk.files
          /\ last' = Returned("update_note", None, clock)
          /\ UNCHANGED <<notes, clock>>

\* NoteManager.update_note
update_note(note_id, title, content, tags) ==
  LET found == DictGet(notes, note_id) IN
  IF found # None
  THEN LET t == clock
           note == Note_update(found[1], title, content, tags, t)
           ns == DictSet(notes, note_id, note)
           disk == save_notes(ns, files)
       IN /\ notes' = ns
          /\ meta' = disk.meta
          /\ files' = disk.files
          /\ UNCHANGED clock
          /\ last' = Saved("update_note", Some(note), disk, clock)
  ELSE /\ last' = Returned("update_note", None, clock)
       /\ UNCHANGED <<notes, meta, files, clock>>

\* delete_note removing the content file before it persists: the variant the
\* order of the two steps must be told from.
delete_note_UnlinkFirst(note_id) ==
  IF note_id \in Keys(notes)
  THEN LET ns == DictDel(notes, note_id)
           removed == IF fault = "unlink" THEN files ELSE Unlink(files, note_id)
           disk == save_notes(ns, removed)
       IN /\ notes' = ns
          /\ meta' = disk.meta
          /\ files' = disk.files
          /\ last' = Saved("delete_note", TRUE, disk, clock)
          /\ UNCHANGED clock
  ELSE /\ last' = Returned("delete_note", FALSE, clock)
       /\ UNCHANGED <<notes, meta, files, clock>>

\* NoteManager.delete_note
delete_note(note_id) ==
  IF note_id \in Keys(notes)
  THEN LET ns == DictDel(notes, note_id)
           disk == save_notes(ns, files)
       IN /\ notes' = ns
          /\ meta' = disk.meta
          /\ files' = IF disk.raised \/ fault = "unlink" THEN disk.files
                       ELSE Unlink(disk.files, note_id)
          /\ last' = Saved("delete_note", TRUE, disk, clock)
          /\ UNCHANGED clock
  ELSE /\ last' = Returned("delete_note", FALSE, clock)
       /\ UNCHANGED <<notes, meta, files, clock>>

\* server.add_tag / cli `tags add`: get_note, Note.add_tag, _save_notes.
add_tag(note_id, tag) ==
  LET found == DictGet(notes, note_id) IN
  IF found # None
  THEN LET t == clock
           note == Note_add_tag(found[1], tag, t)
           ns == DictSet(notes, note_id, note)
           disk == save_notes(ns, files)
       IN /\ notes' = ns
          /\ meta' = disk.meta
          /\ files' = disk.files
          /\ UNCHANGED clock
          /\ last' = Saved("add_tag", Some(note), disk, clock)
  ELSE /\ last' = Returned("add_tag", None, clock)
       /\ UNCHANGED <<notes, meta, files, clock>>

\* server.remove_tag / cli `tags remove`: get_note, Note.remove_tag, _save_notes.
remove_tag(note_id, tag) ==
  LET found == DictGet(notes, note_id) IN
  IF found # None
  THEN LET t == clock
           note == Note_remove_tag(found[1], tag, t)
           ns == DictSet(notes, note_id, note)
           disk == save_notes(ns, files)
       IN /\ notes' = ns
          /\ meta' = disk.meta
          /\ files' = disk.files
          /\ UNCHANGED clock
          /\ last' = Saved("remove_tag", Some(note), disk, clock)
  ELSE /\ last' = Returned("remove_tag", None, clock)
       /\ UNCHANGED <<notes, meta, files, clock>>

\* list.sort(key=lambda x: x.updated_at, reverse=True): a stable sort, so an
\* entry goes after the entries already placed whose key is not smaller.
RECURSIVE InsertByUpdated(_, _)
InsertByUpdated(sorted, e) ==
  IF sorted = <<>> THEN <<e>>
  ELSE IF Head(sorted).note.updated_at.t >= e.note.updated_at.t
       THEN <<Head(sorted)>> \o InsertByUpdated(Tail(sorted), e)
       ELSE <<e>> \o sorted

RECURSIVE SortByUpdated(_, _)
SortByUpdated(sorted, rest) ==
  IF rest = <<>> THEN sorted
  ELSE SortByUpdated(InsertByUpdated(sorted, Head(rest)), Tail(rest))

\* Comparing the keys raises TypeError as soon as two of them differ in kind.
SortRaises(ns) ==
  \E i, j \in 1..Len(ns) : ~Comparable(ns[i].note.updated_at, ns[j].note.updated_at)

\* The two filters of list_notes: `if tags:` and `if search_query:` skip a
\* filter whose argument is None or empty.
FilterNotes(ns, tags, search_query) ==
  LET HasTag(e) == \E i \in 1..Len(tags[1]) : InList(e.note.tags, tags[1][i])
      Matches(e) == search_in_content(e.note, search_query[1])
      byTag == IF tags # None /\ tags[1] # <<>> THEN SelectSeq(ns, HasTag) ELSE ns
  IN IF search_query # None /\ search_query[1] # <<>> THEN SelectSeq(byTag, Matches) ELSE byTag

\* NoteManager.list_notes
list_notes(tags, search_query) ==
  LET found == FilterNotes(notes, tags, search_query) IN
  /\ last' = IF SortRaises(found) THEN Raised("list_notes", "TypeError", clock)
             ELSE Returned("list_notes", SortByUpdated(<<>>, found), clock)
  /\ UNCHANGED <<notes, meta, files, clock>>

\* NoteManager.get_note_count
get_note_count(ns) == Len(ns)

\* The loop of import_notes: an entry from_dict raises on is skipped, another
\* is stored under its own note_id and counted.
RECURSIVE ImportEntries(_, _, _, _)
ImportEntries(ns, entries, imported_count, uuid) ==
  IF entries = <<>> THEN [notes |-> ns, imported_count |-> imported_count]
  ELSE LET note_data == Head(entries).data IN
       IF from_dict_raises(note_data)
       THEN ImportEntries(ns, Tail(entries), imported_count, uuid)
       ELSE LET content == IF "content" \in DOMAIN note_data THEN note_data.content ELSE <<>>
                note == from_dict(note_data, content, uuid)
            IN ImportEntries(DictSet(ns, note.note_id, note), Tail(entries),
                             imported_count + 1, uuid)

\* NoteManager.import_notes
import_notes(file, uuid) ==
  LET done == ImportEntries(notes, file, 0, uuid)
      disk == save_notes(done.notes, files)
  IN /\ notes' = done.notes
     /\ meta' = IF done.imported_count > 0 THEN disk.meta ELSE meta
     /\ files' = IF done.imported_count > 0 THEN disk.files ELSE files
     /\ last' = IF done.imported_count > 0
                THEN Saved("import_notes", done.imported_count, disk, clock)
                ELSE Returned("import_notes", done.imported_count, clock)
     /\ UNCHANGED clock

\* NoteManager.__init__ on the same notes directory: the process is started
\* again and the store is loaded from what is on disk.
restart(uuid) ==
  /\ notes' = load_notes(meta, files, uuid)
  /\ last' = Returned("__init__", None, clock)
  /\ UNCHANGED <<meta, files, clock>>

\* Time passes between two calls.
tick ==
  /\ clock < MaxClock
  /\ clock' = clock + 1
  /\ UNCHANGED <<notes, meta, files, last>>

\* The store under create, read, update and delete calls.
Next ==
  \/ \E title \in Titles, content \in Contents, tags \in Optional(TagLists),
        uuid \in Ids, d \in {0, 1} :
       create_note(title, content, tags, uuid, d) /\ UNCHANGED env
  \/ \E note_id \in Ids : get_note(note_id) /\ UNCHANGED env
  \/ \E note_id \in Ids, title \in Optional(Titles), content \in Optional(Contents),
        tags \in Optional(TagLists) :
       update_note(note_id, title, content, tags) /\ UNCHANGED env
  \/ \E note_id \in Ids : delete_note(note_id) /\ UNCHANGED env
  \/ tick /\ UNCHANGED env

Spec == Init /\ [][Next]_vars

\* The store under the adapters' tag calls.
NextTags ==
  \/ \E tags \in TagLists, uuid \in Ids, d \in {0, 1} :
       create_note(<<"x">>, <<>>, Some(tags), uuid, d) /\ UNCHANGED env
  \/ \E note_id \in Ids, tag \in TagNames : add_tag(note_id, tag) /\ UNCHANGED env
  \/ \E note_id \in Ids, tag \in TagNames : remove_tag(note_id, tag) /\ UNCHANGED env
  \/ tick /\ UNCHANGED env

SpecTags == Init /\ [][NextTags]_vars

\* The store and its files under every mutating call, imports included, with
\* the process started again at any point.
NextStore ==
  \/ \E content \in Contents, uuid \in Ids, d \in {0, 1} :
       create_note(<<"x">>, content, Some(<<TagLower>>), uuid, d) /\ UNCHANGED env
  \/ \E note_id \in Ids, content \in Optional(Contents) :
       update_note(note_id, Some(<<"A", "b">>), content, None) /\ UNCHANGED env
  \/ \E note_id \in Ids : delete_note(note_id) /\ UNCHANGED env
  \/ \E note_id \in Ids : add_tag(note_id, TagUpper) /\ UNCHANGED env
  \/ \E note_id \in Ids : remove_tag(note_id, TagLower) /\ UNCHANGED env
  \/ \E file \in ImportFiles, uuid \in Ids : import_notes(file, uuid) /\ UNCHANGED env
  \/ \E uuid \in Ids : restart(uuid) /\ UNCHANGED env
  \/ tick /\ UNCHANGED env

SpecStore == Init /\ [][NextStore]_vars

\* The store under the calls that fill it, and list_notes.
NextList ==
  \/ \E title \in Titles, content \in Contents, tags \in {<<>>, <<TagLower>>, <<TagUpper>>},
        uuid \in Ids, d \in {0, 1} :
       create_note(title, content, Some(tags), uuid, d) /\ UNCHANGED env
  \/ \E uuid \in Ids : import_notes(ImportNaive, uuid) /\ UNCHANGED env
  \/ \E tags \in Optional(ListTags), search_query \in Optional(Queries) :
       list_notes(tags, search_query) /\ UNCHANGED env
  \/ tick /\ UNCHANGED env

SpecList == Init /\ [][NextList]_vars

\* A note exported elsewhere at a later time of the clock than any the store
\* has read so far.
ImportLater == <<Exported("n1", <<"x">>, <<>>, <<>>, <<MaxClock + 1, "+00:00">>, <<MaxClock + 1, "+00:00">>)>>

\* The store under create_note, update_note and import_notes, listed without
\* filter.
NextRecent ==
  \/ \E uuid \in Ids, d \in {0, 1} : create_note(<<"x">>, <<>>, None, uuid, d) /\ UNCHANGED env
  \/ \E note_id \in Ids, title \in Titles : update_note(note_id, Some(title), None, None) /\ UNCHANGED env
  \/ \E file \in {ImportLater, ImportNaive}, uuid \in Ids : import_notes(file, uuid) /\ UNCHANGED env
  \/ list_notes(None, None) /\ UNCHANGED env
  \/ tick /\ UNCHANGED env

SpecRecent == Init /\ [][NextRecent]_vars

\* ord(c) of the characters the tags are made of: Python compares strings
\* code point by code point.
CodePoint(c) ==
  CASE c = SP -> 32 [] c = "A" -> 65 [] c = "B" -> 66 [] c = "X" -> 88
    [] c = "a" -> 97 [] c = "b" -> 98 [] c = "x" -> 120

\* str.__lt__
RECURSIVE StrLess(_, _)
StrLess(a, b) ==
  IF b = <<>> THEN FALSE
  ELSE IF a = <<>> THEN TRUE
  ELSE IF Head(a) = Head(b) THEN StrLess(Tail(a), Tail(b))
  ELSE CodePoint(Head(a)) < CodePoint(Head(b))

\* The tags of the first note only: the variant the union must be told from.
TagSet_FirstNote(ns) ==
  IF ns = <<>> THEN {} ELSE {ns[1].note.tags[j] : j \in 1..Len(ns[1].note.tags)}

\* get_all_tags: tags = set(); tags.update(note.tags) for every note.
TagSet(ns) == UNION {{ns[i].note.tags[j] : j \in 1..Len(ns[i].note.tags)} : i \in 1..Len(ns)}

\* sorted(list(tags)): the least element first, then the rest sorted.
RECURSIVE Sorted(_)
Sorted(S) ==
  IF S = {} THEN <<>>
  ELSE LET least == CHOOSE x \in S : \A y \in S \ {x} : StrLess(x, y)
       IN <<least>> \o Sorted(S \ {least})

\* NoteManager.get_all_tags
get_all_tags ==
  /\ last' = Returned("get_all_tags", Sorted(TagSet(notes)), clock)
  /\ UNCHANGED <<notes, meta, files, clock>>

TagPair == <<"X", "x">>

\* The store under the calls that give and take tags, and get_all_tags.
NextAllTags ==
  \/ \E tags \in {<<>>, <<TagLower>>, <<TagLower, TagPair>>, <<TagPair, TagUpper>>},
        uuid \in Ids, d \in {0, 1} :
       create_note(<<"x">>, <<>>, Some(tags), uuid, d) /\ UNCHANGED env
  \/ \E note_id \in Ids, tag \in TagNames : add_tag(note_id, tag) /\ UNCHANGED env
  \/ \E note_id \in Ids, tag \in TagNames \cup {TagPair} : remove_tag(note_id, tag) /\ UNCHANGED env
  \/ \E note_id \in Ids : delete_note(note_id) /\ UNCHANGED env
  \/ get_all_tags /\ UNCHANGED env
  \/ tick /\ UNCHANGED env

SpecAllTags == Init /\ [][NextAllTags]_vars

\* An entry of an import file under a key that is not its note_id.
Rekeyed(key, e) == [e EXCEPT !.key = key]

\* An import file of one entry from_dict accepts (under another key than its
\* note_id), one without the keys of a note (as in tests/test_core.py) and one
\* whose created_at does not parse.
ImportMixed ==
  << Rekeyed("k1", Exported("n1", <<"A", "b">>, <<"b">>, <<TagUpper>>,
                            <<1, "+00:00">>, <<1, "+00:00">>)),
     [key |-> "k2", data |-> [invalid |-> "data"]],
     Rekeyed("k3", Exported("n2", <<"x">>, <<>>, <<>>, NotIsoFormat, <<1, "+00:00">>)) >>

\* An import file with an entry whose content is a number.
ImportNotStr ==
  << Exported("n2", <<"x">>, <<NotStr>>, <<>>, <<1, "+00:00">>, <<1, "+00:00">>) >>

\* An import file with an entry whose note_id is the empty string.
ImportNoId ==
  << Rekeyed("k1", Exported("", <<"x">>, <<>>, <<>>, <<1, "+00:00">>, <<1, "+00:00">>)) >>

\* An import file none of whose entries from_dict accepts.
ImportNothing == << [key |-> "k2", data |-> [invalid |-> "data"]] >>

ImportCases == {ImportMixed, ImportNotStr, ImportNoId, ImportNothing}

\* What uuid4 gives a note imported without an id.
ImportUuids == {"u1"}

\* The store under import_notes of files with entries of every kind.
NextImport ==
  \/ \E content \in Contents, uuid \in Ids, d \in {0, 1} :
       create_note(<<"x">>, content, Some(<<TagLower>>), uuid, d) /\ UNCHANGED env
  \/ \E file \in ImportCases, uuid \in ImportUuids :
       /\ file = ImportNoId => uuid \notin Keys(notes)
       /\ import_notes(file, uuid) /\ UNCHANGED env
  \/ \E note_id \in Ids \cup ImportUuids : get_note(note_id) /\ UNCHANGED env
  \/ \E uuid \in Ids : restart(uuid) /\ UNCHANGED env
  \/ tick /\ UNCHANGED env

SpecImport == Init /\ [][NextImport]_vars

\* What notes.json may hold when something else than the store wrote it: no
\* file, no JSON, entries of which some do not deserialize, entries that all do.
TamperedFiles ==
  {AbsentFile, CorruptFile, JsonFile(ImportMixed), JsonFile(ImportNothing),
   JsonFile(ImportNaive), JsonFile(ImportNoId)}

\* notes.json is replaced behind the back of the store: _load_notes reads
\* whatever is there.
tamper(m) ==
  /\ meta' = m
  /\ UNCHANGED <<notes, files, clock, last>>

\* The store constructed again and again over a notes.json it wrote itself or
\* that was put there.
NextLoad ==
  \/ \E content \in Contents, uuid \in Ids, d \in {0, 1} :
       create_note(<<"x">>, content, Some(<<TagLower>>), uuid, d) /\ UNCHANGED env
  \/ \E m \in TamperedFiles : tamper(m) /\ UNCHANGED env
  \/ \E uuid \in ImportUuids : restart(uuid) /\ UNCHANGED env
  \/ tick /\ UNCHANGED env

SpecLoad == Init /\ [][NextLoad]_vars

\* The file system starts or stops refusing: opening a file for writing
\* ("write": read-only or missing directory) or removing one ("unlink").
Faults == {"none", "write", "unlink"}

set_fault(f) ==
  /\ fault' = f
  /\ f # fault
  /\ UNCHANGED <<notes, meta, files, clock, last, exported, requests>>

\* NoteManager.export_notes: every note's to_dict, content included, is dumped
\* to the export file; open(file_path, "w") is not inside a try, so its
\* OSError leaves as it is.
export_notes ==
  /\ IF fault = "write"
     THEN /\ last' = Raised("export_notes", "OSError", clock)
          /\ UNCHANGED exported
     ELSE /\ exported' = Some([i \in 1..Len(notes) |->
                                 [key |-> notes[i].key,
                                  data |-> [to_dict(notes[i].note) EXCEPT
                                              !.content = notes[i].note.content]]])
          /\ last' = Returned("export_notes", None, clock)
  /\ UNCHANGED <<notes, meta, files, clock, fault, requests>>

\* The store on a file system that refuses writes or removals now and then.
NextFault ==
  \/ \E uuid \in Ids : create_note(<<"x">>, <<>>, None, uuid, 0) /\ UNCHANGED env
  \/ \E note_id \in Ids :
       update_note(note_id, Some(<<"A", "b">>), None, None) /\ UNCHANGED env
  \/ \E note_id \in Ids : delete_note(note_id) /\ UNCHANGED env
  \/ \E file \in {ImportNaive, ImportNothing}, uuid \in ImportUuids :
       import_notes(file, uuid) /\ UNCHANGED env
  \/ export_notes
  \/ \E f \in Faults : set_fault(f)

SpecFault == Init /\ [][NextFault]_vars

\* An import file whose note was, by its timestamps, updated before it was
\* created.
ImportBackdated ==
  << Exported("n1", <<"x">>, <<>>, <<TagUpper>>, <<1, "+00:00">>, <<0, "+00:00">>) >>

\* Tag lists as a caller may give them: nothing checks them for repetition.
GivenTagLists == {<<>>, <<TagLower>>, <<TagLower, TagLower>>}

\* The store under every call that makes or changes a note.
NextNotes ==
  \/ \E tags \in Optional(GivenTagLists), uuid \in Ids, d \in {0, 1} :
       create_note(<<"x">>, <<>>, tags, uuid, d) /\ UNCHANGED env
  \/ \E note_id \in Ids, tags \in Optional({<<TagUpper, TagUpper>>}) :
       update_note(note_id, Some(<<"A", "b">>), None, tags) /\ UNCHANGED env
  \/ \E note_id \in Ids : add_tag(note_id, TagUpper) /\ UNCHANGED env
  \/ \E note_id \in Ids : remove_tag(note_id, TagLower) /\ UNCHANGED env
  \/ \E uuid \in Ids : import_notes(ImportBackdated, uuid) /\ UNCHANGED env
  \/ \E uuid \in Ids : restart(uuid) /\ UNCHANGED env
  \/ tick /\ UNCHANGED env

SpecNotes == Init /\ [][NextNotes]_vars

\* A client issues the requests of S at once (asyncio.gather in
\* tests/test_server.py): each handler starts and waits in
\* `await request.json()`.
post_concurrently(S) ==
  /\ S # {}
  /\ \A r \in Requests : requests[r].pc = "unsent"
  /\ requests' = [r \in Requests |->
                    IF r \in S THEN [pc |-> "reading", status |-> 0, call |-> <<>>]
                    ELSE requests[r]]
  /\ UNCHANGED <<notes, meta, files, clock, last, fault, exported>>

\* NotepyOnlineServer.create_note after its await: the body is read, then
\* note_mgr.create_note runs to its end without another await and the handler
\* answers 201, or 500 on any exception.
post_notes(r, title, content, tags, uuid, d) ==
  /\ requests[r].pc = "reading"
  /\ create_note(title, content, tags, uuid, d)
  /\ requests' = [requests EXCEPT
                    ![r] = [pc |-> "done",
                            status |-> IF last'.raised = "" THEN 201 ELSE 500,
                            call |-> <<"create_note">>]]
  /\ UNCHANGED <<fault, exported>>

\* NotepyOnlineServer.get_notes without query parameters: list_notes(None,
\* None), no await.
get_notes == list_notes(None, None) /\ UNCHANGED env

\* The server under create requests issued at once and GET /api/notes.
NextServer ==
  \/ \E S \in SUBSET Requests : post_concurrently(S)
  \/ \E r \in Requests, title \in Titles, content \in Contents, uuid \in Ids, d \in {0, 1} :
       post_notes(r, title, content, None, uuid, d)
  \/ get_notes
  \/ tick /\ UNCHANGED env

SpecServer == Init /\ [][NextServer]_vars

\* The tag a client puts in the body of its POST /api/notes/{id}/tags.
TagOf(r) == IF r = "r1" THEN TagLower ELSE TagUpper

\* The titles the adapters are given: an empty one and a plain one.
GivenTitles == {<<>>, <<"x">>}

\* What a handler answers after a call on the store that is answered `ok` when
\* it finds the note: 500 when the call raised, 404 when it found no note.
StatusOf(l, ok) == IF l.raised # "" THEN 500 ELSE IF l.ret = None THEN 404 ELSE ok

\* NotepyOnlineServer.update_note after its await: data.get for title, content
\* and tags, then note_mgr.update_note without another await; 200 with the
\* note, 404 without; only a JSONDecodeError is caught, anything else is
\* answered 500 by the framework.
put_note(r, note_id, title, content, tags) ==
  /\ requests[r].pc = "reading"
  /\ update_note(note_id, title, content, tags)
  /\ requests' = [requests EXCEPT
                    ![r] = [pc |-> "done", status |-> StatusOf(last', 200),
                            call |-> <<"update_note", note_id>>]]
  /\ UNCHANGED <<fault, exported>>

\* NotepyOnlineServer.add_tag after its await: data["tag"] raises KeyError on a
\* body without the field (body = None), caught and answered 500 before the
\* store is touched; else get_note, Note.add_tag and _save_notes without
\* another await.
post_tag(r, note_id, body) ==
  /\ requests[r].pc = "reading"
  /\ IF body = None
     THEN /\ requests' = [requests EXCEPT
                            ![r] = [pc |-> "done", status |-> 500,
                                    call |-> <<"add_tag", note_id>>]]
          /\ UNCHANGED <<notes, meta, files, clock, last>>
     ELSE /\ add_tag(note_id, body[1])
          /\ requests' = [requests EXCEPT
                            ![r] = [pc |-> "done", status |-> StatusOf(last', 200),
                                    call |-> <<"add_tag", note_id, body[1]>>]]
  /\ UNCHANGED <<fault, exported>>

\* NotepyOnlineServer.remove_tag: no await at all; get_note, Note.remove_tag
\* and _save_notes.
delete_tag(r, note_id, tag) ==
  /\ requests[r].pc = "reading"
  /\ remove_tag(note_id, tag)
  /\ requests' = [requests EXCEPT
                    ![r] = [pc |-> "done", status |-> StatusOf(last', 200),
                            call |-> <<"remove_tag", note_id, tag>>]]
  /\ UNCHANGED <<fault, exported>>

\* The client has every answer of the requests it issued and may issue more.
gathered ==
  /\ \E r \in Requests : requests[r].pc = "done"
  /\ \A r \in Requests : requests[r].pc # "reading"
  /\ requests' = [r \in Requests |-> [pc |-> "unsent", status |-> 0, call |-> <<>>]]
  /\ UNCHANGED <<notes, meta, files, clock, last, fault, exported>>

\* A handler of the server runs.
Handle ==
  \/ \E r \in Requests, title \in GivenTitles, uuid \in Ids :
       post_notes(r, title, <<>>, None, uuid, 0)
  \/ \E r \in Requests, note_id \in Ids, title \in Optional(GivenTitles) :
       put_note(r, note_id, title, None, None)
  \/ \E r \in Requests, note_id \in Ids :
       \E body \in {None, Some(TagOf(r))} : post_tag(r, note_id, body)
  \/ \E r \in Requests, note_id \in Ids : delete_tag(r, note_id, TagLower)

\* The server under mutating requests issued at once, batch after batch.
NextApi ==
  \/ \E S \in SUBSET Requests : post_concurrently(S)
  \/ Handle
  \/ gathered

\* The event loop runs the handler of every request that has arrived.
SpecApi == Init /\ [][NextApi]_vars /\ WF_vars(Handle)

\* The store while the content files are read-only now and then; notes.json
\* stays writable.
NextPartial ==
  \/ \E uuid \in Ids : create_note(<<"x">>, <<"b">>, None, uuid, 0) /\ UNCHANGED env
  \/ \E note_id \in Ids, title \in Optional({<<"A", "b">>}), content \in Optional({<<"c">>}) :
       update_note(note_id, title, content, None) /\ UNCHANGED env
  \/ \E note_id \in Ids : delete_note(note_id) /\ UNCHANGED env
  \/ \E uuid \in ImportUuids : restart(uuid) /\ UNCHANGED env
  \/ \E f \in {"none", "content"} : set_fault(f)

SpecPartial == Init /\ [][NextPartial]_vars

\* The keys notes.json holds.
StoredKeys == IF meta.kind = "json" THEN {meta.entries[i].key : i \in 1..Len(meta.entries)} ELSE {}

\* The ids uuid4 has not given out yet: not in the server's map, not on disk.
UnusedIds == (Ids \cup {"n3"}) \ (Keys(notes) \cup StoredKeys \cup DOMAIN files)

\* cli `notes create` while the server runs: the command constructs a
\* NoteManager of its own on the same notes directory, which loads what is on
\* disk, creates the note and persists its own map; the map of the server's
\* NoteManager (notes) is not told.
cli_create(title, content, tags, uuid, d) ==
  /\ uuid \in UnusedIds
  /\ LET loaded == load_notes(meta, files, uuid)
         t1 == clock
         t2 == Now(t1, d)
         note == NoteInit(title, html_to_markdown(content), tags, None, None, None,
                          uuid, t1, t2)
         ns == DictSet(loaded, note.note_id, note)
         disk == save_notes(ns, files)
     IN /\ meta' = disk.meta
        /\ files' = disk.files
        /\ clock' = t2
        /\ last' = Saved("notes create", note, disk, clock)
        /\ UNCHANGED notes

\* cli `notes edit` while the server runs: a NoteManager of its own again,
\* then update_note on it.
cli_edit(note_id, title, content, tags) ==
  LET loaded == load_notes(meta, files, "u1")
      found == DictGet(loaded, note_id)
  IN IF found # None
     THEN LET note == Note_update(found[1], title, content, tags, clock)
              ns == DictSet(loaded, note_id, note)
              disk == save_notes(ns, files)
          IN /\ meta' = disk.meta
             /\ files' = disk.files
             /\ last' = Saved("notes edit", Some(note), disk, clock)
             /\ UNCHANGED <<notes, clock>>
     ELSE /\ last' = Returned("notes edit", None, clock)
          /\ UNCHANGED <<notes, meta, files, clock>>

\* The server's store and cli commands on one notes directory; nothing is
\* ever deleted.
NextShared ==
  \/ \E title \in Titles, uuid \in UnusedIds :
       create_note(title, <<>>, None, uuid, 0) /\ UNCHANGED env
  \/ \E note_id \in Ids, title \in Titles :
       update_note(note_id, Some(title), None, None) /\ UNCHANGED env
  \/ \E title \in Titles, uuid \in Ids \cup {"n3"} :
       cli_create(title, <<"b">>, Some(<<TagLower>>), uuid, 0) /\ UNCHANGED env
  \/ \E note_id \in Ids \cup {"n3"}, title \in Titles :
       cli_edit(note_id, Some(title), None, None) /\ UNCHANGED env

SpecShared == Init /\ [][NextShared]_vars

\* import_notes of the export file by a NoteManager constructed on another,
\* empty notes directory: from here on notes, meta and files are those of that
\* store.
import_elsewhere(uuid) ==
  /\ exported # None
  /\ LET done == ImportEntries(<<>>, exported[1], 0, uuid)
         disk == save_notes(done.notes, EmptyFiles)
     IN /\ notes' = done.notes
        /\ meta' = IF done.imported_count > 0 THEN disk.meta ELSE AbsentFile
        /\ files' = IF done.imported_count > 0 THEN disk.files ELSE EmptyFiles
        /\ last' = IF done.imported_count > 0
                   THEN Saved("import_notes", done.imported_count, disk, clock)
                   ELSE Returned("import_notes", done.imported_count, clock)
  /\ UNCHANGED <<clock, fault, exported, requests>>

\* A store that is filled, exported, and whose export is imported elsewhere.
NextExport ==
  \/ \E content \in Contents, uuid \in Ids :
       create_note(<<"A", "b">>, content, Some(<<TagLower>>), uuid, 0) /\ UNCHANGED env
  \/ \E file \in {ImportAware, ImportNaive, ImportNotStr}, uuid \in ImportUuids :
       import_notes(file, uuid) /\ UNCHANGED env
  \/ tamper(JsonFile(ImportNoId)) /\ UNCHANGED env
  \/ \E uuid \in ImportUuids : restart(uuid) /\ UNCHANGED env
  \/ export_notes
  \/ \E uuid \in ImportUuids : import_elsewhere(uuid)

SpecExport == Init /\ [][NextExport]_vars

\* The store listed with a tag list that is given but empty.
NextListEmpty ==
  \/ \E title \in Titles, tags \in {<<>>, <<TagLower>>}, uuid \in Ids, d \in {0, 1} :
       create_note(title, <<>>, Some(tags), uuid, d) /\ UNCHANGED env
  \/ \E note_id \in Ids : delete_note(note_id) /\ UNCHANGED env
  \/ \E tags \in {Some(<<>>), Some(<<TagLower>>)}, search_query \in Optional(Queries) :
       list_notes(tags, search_query) /\ UNCHANGED env
  \/ tick /\ UNCHANGED env

SpecListEmpty == Init /\ [][NextListEmpty]_vars

\* ----------------------------------------------------------------- claims

NoteOf(ns, k) == DictGet(ns, k)[1]

\* Two stores hold the same ids and, under each id, the same title, content,
\* tags, created_at and updated_at.
SameStore(a, b) ==
  /\ Keys(a) = Keys(b)
  /\ \A k \in Keys(a) :
       /\ NoteOf(a, k).title = NoteOf(b, k).title
       /\ NoteOf(a, k).content = NoteOf(b, k).content
       /\ NoteOf(a, k).tags = NoteOf(b, k).tags
       /\ NoteOf(a, k).created_at = NoteOf(b, k).created_at
       /\ NoteOf(a, k).updated_at = NoteOf(b, k).updated_at

\* Every note but the one under k is what it was.
OthersUntouched(k) ==
  /\ Keys(notes') \ {k} = Keys(notes) \ {k}
  /\ \A o \in Keys(notes) \ {k} : DictGet(notes', o) = DictGet(notes, o)

\* C1: after any sequence of mutating calls that returned, a NoteManager
\* constructed on the same directory holds the same ids as the live one and
\* under each id the same title, content, tags, created_at and updated_at.
C1_WriteThrough == SameStore(load_notes(meta, files, "n1"), notes)

\* C1, for the stores whose contents hold no carriage return.
C1_WriteThroughNoCR ==
  (\A i \in 1..Len(notes) : ~InList(notes[i].note.content, CR))
    => SameStore(load_notes(meta, files, "n1"), notes)

\* C2 as claimed: create_note returns a note with an id no note of the store
\* has, created_at equal to updated_at, and the title, content and tags given;
\* get_note(id) then returns those fields.
C2_CreateAsClaimed ==
  [][\A title \in Titles, content \in Contents, tags \in TagLists,
        uuid \in Ids, d \in {0, 1} :
       create_note(title, content, Some(tags), uuid, d) =>
         LET n == last'.ret IN
         /\ n.note_id \notin Keys(notes)
         /\ n.created_at = n.updated_at
         /\ n.title = title /\ n.content = content /\ n.tags = tags
         /\ DictGet(notes', n.note_id) = Some(n)]_vars

\* C2 as amended: create_note returns a note with an id no note of the store
\* has, created_at not later than updated_at (two readings of the clock), the
\* title and tags given and the content html_to_markdown makes of the given
\* content; get_note(id) then returns those fields.
C2_Create ==
  [][\A title \in Titles, content \in Contents, tags \in TagLists,
        uuid \in Ids, d \in {0, 1} :
       create_note(title, content, Some(tags), uuid, d) =>
         LET n == last'.ret IN
         /\ n.note_id \notin Keys(notes)
         /\ n.created_at.tz = "utc" /\ n.updated_at.tz = "utc"
         /\ n.created_at.t <= n.updated_at.t
         /\ n.title = title /\ n.tags = tags
         /\ n.content = html_to_markdown(content)
         /\ DictGet(notes', n.note_id) = Some(n)]_vars

\* C2's case: a second note was created from HTML content while the clock
\* moved between the two readings.
C2_Witness ==
  /\ last.op = "create_note"
  /\ Len(notes) = 2
  /\ last.ret.content = <<"b">>
  /\ last.ret.tags = <<TagLower>>
  /\ last.ret.created_at # last.ret.updated_at

\* C3: from_dict(to_dict(n)) has the note_id, title, content, tags, created_at
\* and updated_at of n, for every note n of the store.
C3_RoundTrip ==
  \A i \in 1..Len(notes) :
    LET n == notes[i].note
        m == from_dict(to_dict(n), <<>>, "n1")
    IN /\ m.note_id = n.note_id /\ m.title = n.title /\ m.content = n.content
       /\ m.tags = n.tags /\ m.created_at = n.created_at /\ m.updated_at = n.updated_at

\* C3's case: the store was loaded from its files and holds a note with aware
\* timestamps, content and tags, and a note with naive timestamps.
C3_Witness ==
  /\ last.op = "__init__"
  /\ \E i, j \in 1..Len(notes) :
       /\ notes[i].note.updated_at.tz = "utc" /\ notes[j].note.updated_at.tz = "naive"
       /\ notes[i].note.content # <<>> /\ notes[i].note.tags # <<>>

\* C4: add_tag with a tag the note has changes neither its tags nor its
\* updated_at; with a tag it has not, the tag is appended and updated_at set;
\* a second add_tag of the same tag changes nothing.
C4_AddTagIdempotent ==
  [][\A note_id \in Ids, tag \in TagNames :
       (note_id \in Keys(notes) /\ add_tag(note_id, tag)) =>
         LET before == NoteOf(notes, note_id)
             after == NoteOf(notes', note_id)
         IN /\ InList(before.tags, tag) => after = before
            /\ ~InList(before.tags, tag) =>
                 /\ after.tags = Append(before.tags, tag)
                 /\ after.updated_at = Utc(clock)
            /\ after.updated_at # before.updated_at => ~InList(before.tags, tag)
            /\ \A t \in 0..MaxClock : Note_add_tag(after, tag, t) = after]_vars

\* C4's case: add_tag was called with a tag the note already had (the note it
\* returned was last touched before the call).
C4_Witness ==
  /\ last.op = "add_tag"
  /\ last.ret # None
  /\ last.ret[1].updated_at.t < last.at
  /\ Len(last.ret[1].tags) = 2

\* C5: remove_tag with a tag the note has not leaves its title, content, tags,
\* created_at and updated_at as they were, and raises nothing.
C5_RemoveAbsentTag ==
  [][\A note_id \in Ids, tag \in TagNames :
       (note_id \in Keys(notes) /\ ~InList(NoteOf(notes, note_id).tags, tag)
        /\ remove_tag(note_id, tag)) =>
         /\ NoteOf(notes', note_id) = NoteOf(notes, note_id)
         /\ last'.raised = ""
         /\ last'.ret = Some(NoteOf(notes, note_id))]_vars

\* C5's case: remove_tag was called with a tag the note, which has another,
\* did not have (the note it returned was last touched before the call).
C5_Witness ==
  /\ last.op = "remove_tag"
  /\ last.ret # None
  /\ last.ret[1].updated_at.t < last.at
  /\ last.ret[1].tags # <<>>

\* What update_note must leave of a note whatever it is given, and set.
UpdateFrame(before, after) ==
  /\ after.note_id = before.note_id
  /\ after.created_at = before.created_at
  /\ after.updated_at = Utc(clock)

\* C6 as claimed: update_note on an existing id gives each provided field the
\* given value, keeps each omitted field, sets updated_at to the current time
\* and leaves every other note untouched.
C6_UpdateAsClaimed ==
  [][\A note_id \in Keys(notes), title \in Optional(Titles),
        content \in Optional(Contents), tags \in Optional(TagLists) :
       (last'.op = "update_note" /\ update_note(note_id, title, content, tags)) =>
         LET before == NoteOf(notes, note_id)
             after == NoteOf(notes', note_id)
         IN /\ after.title = IF title = None THEN before.title ELSE title[1]
            /\ after.content = IF content = None THEN before.content ELSE content[1]
            /\ after.tags = IF tags = None THEN before.tags ELSE tags[1]
            /\ UpdateFrame(before, after)
            /\ OthersUntouched(note_id)]_vars

\* C6 as amended: as claimed, but a provided content is stored as
\* html_to_markdown makes it, not as given.
C6_Update ==
  [][\A note_id \in Keys(notes), title \in Optional(Titles),
        content \in Optional(Contents), tags \in Optional(TagLists) :
       (last'.op = "update_note" /\ update_note(note_id, title, content, tags)) =>
         LET before == NoteOf(notes, note_id)
             after == NoteOf(notes', note_id)
         IN /\ after.title = IF title = None THEN before.title ELSE title[1]
            /\ after.content = IF content = None THEN before.content
                               ELSE html_to_markdown(content[1])
            /\ after.tags = IF tags = None THEN before.tags ELSE tags[1]
            /\ UpdateFrame(before, after)
            /\ last'.ret = Some(after)
            /\ OthersUntouched(note_id)]_vars

\* C6's case: of two notes, one was updated after its creation and holds
\* content and a tag; the other holds a tag too.
C6_Witness ==
  /\ last.op = "update_note"
  /\ last.ret # None
  /\ Len(notes) = 2
  /\ last.ret[1].content = <<"b">>
  /\ last.ret[1].created_at.t < last.ret[1].updated_at.t
  /\ \A i \in 1..2 : notes[i].note.tags = <<TagLower>>

\* C7: for an id the store has not, get_note and update_note return None and
\* delete_note returns False; none raises, and the map, notes.json and the
\* content files are as they were.
C7_AbsentId ==
  [][\A note_id \in Ids : note_id \notin Keys(notes) =>
       /\ get_note(note_id) =>
            /\ last'.ret = None /\ last'.raised = ""
            /\ UNCHANGED <<notes, meta, files>>
       /\ \A title \in Optional(Titles), content \in Optional(Contents),
             tags \in Optional(TagLists) :
            update_note(note_id, title, content, tags) =>
              /\ last'.ret = None /\ last'.raised = ""
              /\ UNCHANGED <<notes, meta, files>>
       /\ delete_note(note_id) =>
            /\ last'.ret = FALSE /\ last'.raised = ""
            /\ UNCHANGED <<notes, meta, files>>]_vars

\* C7's case: update_note found no note under the id it was given, in a store
\* that holds another note.
C7_Witness ==
  /\ last.op = "update_note"
  /\ last.ret = None
  /\ Len(notes) = 1

\* C8: delete_note on an id of the store returns True; get_note(id) then
\* returns None, get_note_count() is one less, and every other note is
\* retrievable with its fields unchanged.
C8_Delete ==
  [][\A note_id \in Ids :
       (note_id \in Keys(notes) /\ delete_note(note_id)) =>
         /\ last'.ret = TRUE /\ last'.raised = ""
         /\ DictGet(notes', note_id) = None
         /\ get_note_count(notes') = get_note_count(notes) - 1
         /\ OthersUntouched(note_id)]_vars

\* C8's case: one of two notes was deleted.
C8_Witness ==
  /\ last.op = "delete_note"
  /\ last.ret = TRUE
  /\ Len(notes) = 1

\* Python's `tag in note.tags` for some tag of T, and `q.lower() in s.lower()`
\* for the title, the content or some tag of the note.
TagMatch(n, T) == \E i \in 1..Len(T), j \in 1..Len(n.tags) : T[i] = n.tags[j]
QueryMatch(n, Q) ==
  \E s \in {n.title, n.content} \cup {n.tags[j] : j \in 1..Len(n.tags)} :
    Contains(Lower(s), Lower(Q))

Elements(seq) == {seq[i] : i \in 1..Len(seq)}

\* C9: list_notes(tags=T, search_query=Q) returns exactly the notes with a tag
\* in T that match Q; given one of the two only, the notes that pass it; given
\* neither, every note.
C9_ListFilter ==
  [][\A tags \in Optional(ListTags), search_query \in Optional(Queries) :
       list_notes(tags, search_query) =>
         /\ last'.raised = ""
         /\ Elements(last'.ret) =
              {e \in Elements(notes) :
                 /\ tags # None => TagMatch(e.note, tags[1])
                 /\ search_query # None => QueryMatch(e.note, search_query[1])}]_vars

\* C9, for the calls of list_notes that return.
C9_ListFilterWhenReturned ==
  [][\A tags \in Optional(ListTags), search_query \in Optional(Queries) :
       (list_notes(tags, search_query) /\ last'.raised = "") =>
         Elements(last'.ret) =
           {e \in Elements(notes) :
              /\ tags # None => TagMatch(e.note, tags[1])
              /\ search_query # None => QueryMatch(e.note, search_query[1])}]_vars

\* The place of an entry of the list in the dict.
PlaceOf(e) == KeyIndex(notes, e.key)

OrderedNewestFirst(list) ==
  \A i, j \in 1..Len(list) : i < j =>
    /\ list[i].note.updated_at.t >= list[j].note.updated_at.t
    /\ list[i].note.updated_at.t = list[j].note.updated_at.t =>
         PlaceOf(list[i]) < PlaceOf(list[j])

\* C10: the list list_notes returns is ordered by updated_at descending, notes
\* with equal updated_at in the order of their insertion into the store, for
\* every store content and every filter.
C10_ListOrder ==
  [][\A tags \in Optional(ListTags), search_query \in Optional(Queries) :
       list_notes(tags, search_query) =>
         /\ last'.raised = ""
         /\ OrderedNewestFirst(last'.ret)]_vars

\* C10, for the calls of list_notes that return.
C10_ListOrderWhenReturned ==
  [][\A tags \in Optional(ListTags), search_query \in Optional(Queries) :
       (list_notes(tags, search_query) /\ last'.raised = "") =>
         OrderedNewestFirst(last'.ret)]_vars

\* C11: in every store, imported notes included, the list_notes() that follows
\* a successful update_note(A, ...) returns, and returns A first.
C11_UpdatedFirst ==
  [][(last.op = "update_note" /\ last.ret # None /\ list_notes(None, None)) =>
       /\ last'.raised = ""
       /\ last'.ret # <<>>
       /\ last'.ret[1].note = last.ret[1]]_vars

\* C11, when every other note of the store was last touched strictly before
\* the update of A and carries a timestamp of the kind of A's.
C11_UpdatedFirstWhenNewest ==
  [][(/\ last.op = "update_note" /\ last.ret # None
      /\ \A i \in 1..Len(notes) :
           notes[i].note.note_id # last.ret[1].note_id =>
             /\ Comparable(notes[i].note.updated_at, last.ret[1].updated_at)
             /\ notes[i].note.updated_at.t < last.ret[1].updated_at.t
      /\ list_notes(None, None)) =>
       /\ last'.raised = ""
       /\ last'.ret # <<>>
       /\ last'.ret[1].note = last.ret[1]]_vars

\* a comes before b in lexicographic order: at the first place where they
\* differ a has the smaller code point, or a ends there and b does not.
LexBefore(a, b) ==
  \E k \in 1..Len(b) :
    /\ \A i \in 1..(k - 1) : i <= Len(a) /\ a[i] = b[i]
    /\ k > Len(a) \/ (k <= Len(a) /\ CodePoint(a[k]) < CodePoint(b[k]))

\* C12: get_all_tags returns, in ascending lexicographic order and without
\* repetition, exactly the tags in the tag list of some note of the store.
C12_AllTags ==
  [][get_all_tags =>
       /\ last'.raised = ""
       /\ \A i, j \in 1..Len(last'.ret) : i < j => LexBefore(last'.ret[i], last'.ret[j])
       /\ Elements(last'.ret) =
            {tag \in TagNames \cup {TagPair} :
               \E i \in 1..Len(notes) : InList(notes[i].note.tags, tag)}]_vars

\* C12's case: get_all_tags returned three tags from a store of two notes that
\* share one of them.
C12_Witness ==
  /\ last.op = "get_all_tags"
  /\ Len(last.ret) = 3
  /\ Len(notes) = 2
  /\ \E tag \in TagNames \cup {TagPair} :
       InList(notes[1].note.tags, tag) /\ InList(notes[2].note.tags, tag)

\* C12's second case: a tag that a deleted or untagged note carried is gone
\* from what get_all_tags returns while another tag stays.
C12_WitnessGone ==
  /\ last.op = "get_all_tags"
  /\ Len(last.ret) = 1
  /\ Len(notes) = 1
  /\ notes[1].note.created_at # notes[1].note.updated_at

\* An entry of an import file is well-formed: it has the keys of a note, its
\* timestamps parse and its content, when it has one, is a string.
WellFormed(data) ==
  /\ {"note_id", "title", "created_at", "updated_at"} \subseteq DOMAIN data
  /\ Len(data.created_at) = 2 /\ Len(data.updated_at) = 2
  /\ "content" \in DOMAIN data => \A i \in 1..Len(data.content) : data.content[i] # NotStr

\* What C13 says of one import_notes(file): it returns the number of
\* well-formed entries without raising, each of them is in the store under
\* its note_id, no other key is new, and the notes under other ids are as
\* they were.
ImportSkipsMalformed(file) ==
  LET good == {i \in 1..Len(file) : WellFormed(file[i].data)}
      ids == {file[i].data.note_id : i \in good}
  IN /\ last'.raised = ""
     /\ last'.ret = Cardinality(good)
     /\ Keys(notes') = Keys(notes) \cup ids
     /\ \A k \in Keys(notes) \ ids : DictGet(notes', k) = DictGet(notes, k)

\* C13: import_notes on a file mixing well-formed and malformed entries never
\* fails because of a malformed entry; it imports the well-formed ones only.
C13_ImportSkipsMalformed ==
  [][\A file \in {ImportMixed, ImportNotStr, ImportNothing}, uuid \in ImportUuids :
       import_notes(file, uuid) => ImportSkipsMalformed(file)]_vars

\* C13, for the files whose malformed entries lack a key or carry a timestamp
\* that does not parse.
C13_ImportSkipsRejected ==
  [][\A file \in {ImportMixed, ImportNothing}, uuid \in ImportUuids :
       (import_notes(file, uuid) /\ \A i \in 1..Len(notes) : IsStr(notes[i].note.content))
         => ImportSkipsMalformed(file)]_vars

\* The note import_notes makes of an entry: every field is the entry's.
IsImageOf(note, data) ==
  /\ note.title = data.title
  /\ note.content = data.content
  /\ note.tags = data.tags
  /\ isoformat(note.created_at) = data.created_at
  /\ isoformat(note.updated_at) = data.updated_at

\* What C14 says of the files: the store was persisted once, after all
\* entries, if an entry was imported, and not at all otherwise.
PersistedIfImported ==
  IF last'.ret > 0
  THEN /\ meta' = JsonFile([i \in 1..Len(notes') |->
                              [key |-> notes'[i].key, data |-> to_dict(notes'[i].note)]])
       /\ \A k \in Keys(notes') : k \in DOMAIN files' /\ files'[k] = NoteOf(notes', k).content
  ELSE UNCHANGED <<meta, files>>

\* C14 as claimed: import_notes stores each imported note under its embedded
\* note_id, replacing entirely a note that has that id, and persists the store
\* once at the end if at least one entry was imported.
C14_ImportAsClaimed ==
  [][\A file \in ImportCases, uuid \in ImportUuids :
       (import_notes(file, uuid) /\ last'.raised = "") =>
         /\ \A i \in 1..Len(file) : ~from_dict_raises(file[i].data) =>
              /\ file[i].data.note_id \in Keys(notes')
              /\ IsImageOf(NoteOf(notes', file[i].data.note_id), file[i].data)
         /\ PersistedIfImported]_vars

\* C14 as amended: an entry whose note_id is empty is stored under a fresh id
\* that becomes its note_id; every other entry under its embedded note_id.
C14_Import ==
  [][\A file \in ImportCases, uuid \in ImportUuids :
       (import_notes(file, uuid) /\ last'.raised = "") =>
         /\ \A i \in 1..Len(file) : ~from_dict_raises(file[i].data) =>
              LET k == IF file[i].data.note_id = "" THEN uuid ELSE file[i].data.note_id
              IN /\ k \in Keys(notes')
                 /\ NoteOf(notes', k).note_id = k
                 /\ IsImageOf(NoteOf(notes', k), file[i].data)
                 /\ k \in Keys(notes) => KeyIndex(notes', k) = KeyIndex(notes, k)
         /\ Len(notes') = Cardinality(Keys(notes'))
         /\ PersistedIfImported]_vars

\* C14's case: import_notes replaced the note the store had under "n1", which
\* precedes a created note in the dict, by the entry the file has under "k1".
C14_Witness ==
  /\ last.op = "import_notes"
  /\ last.raised = ""
  /\ last.ret = 1
  /\ Len(notes) = 2
  /\ notes[1].key = "n1" /\ notes[1].note.title = <<"A", "b">>
  /\ notes[2].note.title = <<"x">> /\ notes[2].note.tags = <<TagLower>>

\* An entry of notes.json deserializes: it has the keys from_dict reads and
\* its timestamps parse.
Deserializes(data) ==
  /\ {"note_id", "title", "created_at", "updated_at"} \subseteq DOMAIN data
  /\ Len(data.created_at) = 2 /\ Len(data.updated_at) = 2

\* C15: constructing a NoteManager never raises because of the stored data.
\* Without notes.json the store is empty; with one that does not parse, or with
\* an entry that does not deserialize, the store is empty; otherwise the store
\* holds exactly the entries of the file, under their keys and in their order.
C15_Load ==
  [][\A uuid \in ImportUuids : restart(uuid) =>
       /\ last'.raised = ""
       /\ IF meta.kind # "json" THEN notes' = <<>>
          ELSE IF \E i \in 1..Len(meta.entries) : ~Deserializes(meta.entries[i].data)
          THEN notes' = <<>>
          ELSE /\ Len(notes') = Len(meta.entries)
               /\ \A i \in 1..Len(meta.entries) :
                    LET data == meta.entries[i].data
                        note == notes'[i].note
                    IN /\ notes'[i].key = meta.entries[i].key
                       /\ note.title = data.title
                       /\ note.tags = data.tags
                       /\ isoformat(note.created_at) = data.created_at
                       /\ isoformat(note.updated_at) = data.updated_at
                       /\ data.note_id # "" => note.note_id = data.note_id]_vars

\* C15's case: the store was constructed over a notes.json of three entries of
\* which one deserializes, and is empty.
C15_Witness ==
  /\ last.op = "__init__"
  /\ meta.kind = "json"
  /\ Len(meta.entries) = 3
  /\ \E i \in 1..3 : Deserializes(meta.entries[i].data)
  /\ notes = <<>>

\* C15's other cases: the store was constructed over a notes.json that does
\* not parse, and over one whose entries all deserialize.
C15_WitnessCorrupt == last.op = "__init__" /\ meta.kind = "corrupt" /\ notes = <<>>
C15_WitnessLoaded ==
  /\ last.op = "__init__" /\ meta.kind = "json" /\ Len(notes) = 2
  /\ last.at = MaxClock

\* The call made in this step is one of the five of C16 and had to write: it
\* is create_note, export_notes, update_note or delete_note of a note of the
\* store, or import_notes of a file with an entry it accepts.
HadToWrite ==
  \/ last'.op \in {"create_note", "export_notes"}
  \/ last'.op \in {"update_note", "delete_note"} /\ (last'.raised # "" \/ notes' # notes)
  \/ last'.op = "import_notes" /\ (last'.raised # "" \/ last'.ret > 0)

\* C16: when writing to disk fails during create_note, update_note,
\* delete_note, import_notes or export_notes, the call raises RuntimeError,
\* the same for all five.
C16_WriteFailureRaises ==
  [][(fault = "write" /\ last' # last /\ HadToWrite) => last'.raised = "RuntimeError"]_vars

\* C16 for the four calls that write through _save_notes.
C16_SaveFailureRaises ==
  [][(fault = "write" /\ last' # last /\ HadToWrite /\ last'.op # "export_notes")
       => last'.raised = "RuntimeError"]_vars

\* The cases of C16: each of the five calls met a file system refusing writes.
C16_WitnessExport == fault = "write" /\ last.op = "export_notes" /\ last.raised = "OSError"
C16_WitnessImport == fault = "write" /\ last.op = "import_notes" /\ last.raised = "RuntimeError"
C16_WitnessDelete == fault = "write" /\ last.op = "delete_note" /\ last.raised = "RuntimeError"

\* C17: in every reachable store, no note's tag list holds the same tag twice.
C17_NoDuplicateTags ==
  \A n \in 1..Len(notes) :
    \A i, j \in 1..Len(notes[n].note.tags) :
      i # j => notes[n].note.tags[i] # notes[n].note.tags[j]

\* C17 for the adapters' add_tag alone: it never makes the first repetition.
C17_AddTagKeepsDistinct ==
  [][\A note_id \in Ids :
       (note_id \in Keys(notes) /\ add_tag(note_id, TagUpper)) =>
         LET before == NoteOf(notes, note_id).tags
             after == NoteOf(notes', note_id).tags
         IN (\A i, j \in 1..Len(before) : i # j => before[i] # before[j])
              => (\A i, j \in 1..Len(after) : i # j => after[i] # after[j])]_vars

\* C18: in every reachable store, every note has updated_at >= created_at.
C18_UpdatedNotBeforeCreated ==
  \A n \in 1..Len(notes) :
    /\ Comparable(notes[n].note.updated_at, notes[n].note.created_at)
    /\ notes[n].note.updated_at.t >= notes[n].note.created_at.t

\* C18 for the stores import_notes has not filled: the notes create_note made
\* and the tag calls changed.
C18_UpdatedNotBeforeCreatedOwn ==
  \A n \in 1..Len(notes) :
    /\ notes[n].note.updated_at.tz = "utc" /\ notes[n].note.created_at.tz = "utc"
    /\ notes[n].note.updated_at.t >= notes[n].note.created_at.t

\* C19: update_note, add_tag, remove_tag and a reload of what was persisted
\* leave the note_id and the created_at of every note as they were, and every
\* note in the store.
C19_IdAndCreatedAtFixed ==
  [][last'.op \in {"update_note", "add_tag", "remove_tag", "__init__"} =>
       /\ Keys(notes') = Keys(notes)
       /\ \A k \in Keys(notes) :
            /\ NoteOf(notes', k).note_id = NoteOf(notes, k).note_id
            /\ NoteOf(notes', k).created_at = NoteOf(notes, k).created_at]_vars

\* C19's case: the store was loaded again with two notes, one with aware
\* timestamps that was changed after its creation, one with naive timestamps.
C19_Witness ==
  /\ last.op = "__init__"
  /\ Len(notes) = 2
  /\ \E i, j \in 1..2 :
       /\ notes[i].note.created_at.tz = "utc"
       /\ notes[i].note.created_at.t < notes[i].note.updated_at.t
       /\ notes[j].note.created_at.tz = "naive"

\* The requests that were answered.
Answered == {r \in Requests : requests[r].pc = "done"}

\* C20: of the create requests issued at once, every one answered was answered
\* with 201, and the store, what is on disk and what GET /api/notes lists hold
\* one note per answered request, however the handlers interleave.
C20_NoCreateLost ==
  /\ \A r \in Answered : requests[r].status = 201
  /\ Len(notes) = Cardinality(Answered)
  /\ Cardinality(Keys(notes)) = Cardinality(Answered)
  /\ meta.kind = "json" => Len(meta.entries) = Cardinality(Answered)
  /\ meta.kind # "json" => Answered = {}
  /\ \A k \in Keys(notes) : k \in DOMAIN files
  /\ last.op = "list_notes" => last.raised = "" /\ Len(last.ret) = Cardinality(Answered)

\* C20's case: every request of the two issued at once was answered and GET
\* /api/notes was answered after them.
C20_Witness ==
  /\ Answered = Requests
  /\ Cardinality(Requests) > 1
  /\ last.op = "list_notes"
  /\ Len(last.ret) = Cardinality(Requests)

\* C20's case on the way: one handler has answered while the other, started
\* with it, still waits for its body.
C20_WitnessInFlight ==
  /\ \E r \in Requests : requests[r].pc = "done"
  /\ \E r \in Requests : requests[r].pc = "reading"

\* The tags notes.json holds for a note, none when it does not hold the note.
StoredTags(note_id) ==
  IF meta.kind = "json" /\ \E i \in 1..Len(meta.entries) : meta.entries[i].key = note_id
  THEN LET i == CHOOSE i \in 1..Len(meta.entries) : meta.entries[i].key = note_id
       IN meta.entries[i].data.tags
  ELSE <<>>

\* A request of the batch took the tag off the note.
TagRemoved(note_id, tag) ==
  \E q \in Answered :
     /\ Len(requests[q].call) = 3
     /\ requests[q].call[1] = "remove_tag"
     /\ requests[q].call[2] = note_id
     /\ requests[q].call[3] = tag

\* The tag of an add-tag request answered 200 is in notes.json, unless a
\* request of the same batch removed it.
TagsKept ==
  \A r \in Answered :
     LET c == requests[r].call IN
     (/\ Len(c) = 3
      /\ c[1] = "add_tag"
      /\ requests[r].status = 200
      /\ ~TagRemoved(c[2], c[3]))
     => InList(StoredTags(c[2]), c[3])

C21_WitnessInFlight ==
  /\ requests["r1"].pc = "done"
  /\ requests["r1"].call = <<"update_note", "n1">>
  /\ requests["r1"].status = 200
  /\ requests["r2"].pc = "reading"

\* C22: no note with an empty title is in the store or in notes.json, whatever
\* titles POST /api/notes and PUT /api/notes/{id} are given.
C22_NoEmptyTitle ==
  /\ \A i \in 1..Len(notes) : notes[i].note.title # <<>>
  /\ meta.kind = "json" => \A i \in 1..Len(meta.entries) : meta.entries[i].data.title # <<>>

\* C23: delete_note on an id of the store takes the note out of the map and
\* persists before it removes the content file: when the persist fails the
\* content files are as they were; when it succeeds the call returns True and
\* notes.json is without the note, and the note's content file is gone unless
\* its removal fails, which leaves the file and changes nothing else.
C23_Delete ==
  [][\A note_id \in Ids :
       (note_id \in Keys(notes) /\ delete_note(note_id)) =>
         /\ note_id \notin Keys(notes')
         /\ IF last'.raised # ""
            THEN meta' = meta /\ files' = files
            ELSE /\ last'.ret = TRUE
                 /\ meta'.kind = "json"
                 /\ note_id \notin StoredKeys'
                 /\ fault = "unlink" => (note_id \in DOMAIN files' <=> note_id \in DOMAIN files)
                 /\ fault # "unlink" => note_id \notin DOMAIN files']_vars

\* C23's case: the removal of the content file failed; delete_note returned
\* True, the note is in neither the map nor notes.json, its file is still there.
C23_Witness ==
  /\ last.op = "delete_note"
  /\ last.raised = ""
  /\ last.ret = TRUE
  /\ fault = "unlink"
  /\ \E k \in DOMAIN files : k \notin Keys(notes) /\ k \notin StoredKeys

\* C23's other cases: the persist failed and the content file of the note
\* taken out of the map is still there; the delete went through and no
\* content file is left.
C23_WitnessPersistFailed ==
  /\ last.op = "delete_note"
  /\ last.raised = "RuntimeError"
  /\ \E k \in DOMAIN files : k \notin Keys(notes) /\ k \in StoredKeys

C23_WitnessRemoved ==
  /\ last.op = "delete_note"
  /\ last.raised = ""
  /\ last.ret = TRUE
  /\ fault = "none"
  /\ DOMAIN files = {}

\* What a NoteManager opened on the notes directory now would hold.
Loaded == load_notes(meta, files, "u1")

\* C24: whatever a call that persists does, and whether or not its persist
\* fails part-way, a load of what is on disk afterwards gives either the
\* store as a load gave it before the call or the store as the call left it in
\* memory, never new metadata with old content.
C24_PersistAtomic == [][Loaded' = Loaded \/ Loaded' = notes']_vars

\* C25: POST /api/notes/{id}/tags on a note of the store with a body that has
\* no "tag" field is answered 200; a note that had no tags then has the empty
\* string as its only tag, in the store and in notes.json.
C25_MissingTagAdded ==
  [][\A r \in Requests, note_id \in Ids :
       (note_id \in Keys(notes) /\ post_tag(r, note_id, None)) =>
         /\ requests'[r].status = 200
         /\ DictGet(notes, note_id)[1].tags = <<>> =>
              /\ DictGet(notes', note_id)[1].tags = << <<>> >>
              /\ StoredTags(note_id)' = << <<>> >>]_vars

\* C26: every key of the in-memory map is the note_id of the note stored
\* under it, in every store reached by load, create, update, delete and import.
C26_KeyIsNoteId == \A i \in 1..Len(notes) : notes[i].key = notes[i].note.note_id

\* C27: with the server's NoteManager and the cli's on one notes directory and
\* no call that deletes, a note that is in notes.json stays in notes.json
\* whatever call either of them makes next.
C27_NoteStaysOnDisk == [][StoredKeys \subseteq StoredKeys']_vars

\* C28: when the persist fails during create_note, update_note or delete_note
\* the call raises and notes.json stays as it was, but the in-memory map keeps
\* the change: get_note gives the new or updated note, or None for the deleted
\* one, and get_note_count counts accordingly; the next of these calls that
\* changes the map and persists brings notes.json level with the map.
C28_NoRollback ==
  [][/\ \A uuid \in Ids :
          create_note(<<"x">>, <<>>, None, uuid, 0) /\ last'.raised # "" =>
            /\ last'.raised = "RuntimeError"
            /\ DictGet(notes', uuid) # None
            /\ DictGet(notes', uuid)[1].title = <<"x">>
            /\ get_note_count(notes') = get_note_count(notes) + 1
            /\ meta' = meta
     /\ \A note_id \in Ids :
          /\ note_id \in Keys(notes)
          /\ update_note(note_id, Some(<<"A", "b">>), None, None)
          /\ last'.raised # ""
          => /\ last'.raised = "RuntimeError"
             /\ DictGet(notes', note_id)[1].title = <<"A", "b">>
             /\ get_note_count(notes') = get_note_count(notes)
             /\ meta' = meta
     /\ \A note_id \in Ids :
          /\ note_id \in Keys(notes)
          /\ delete_note(note_id)
          /\ last'.raised # ""
          => /\ last'.raised = "RuntimeError"
             /\ DictGet(notes', note_id) = None
             /\ get_note_count(notes') = get_note_count(notes) - 1
             /\ meta' = meta
             /\ files' = files
     /\ (/\ last'.op \in {"create_note", "update_note", "delete_note"}
         /\ last'.raised = ""
         /\ notes' # notes)
        => meta' = JsonFile([i \in 1..Len(notes') |->
                               [key |-> notes'[i].key, data |-> to_dict(notes'[i].note)]])]_vars

\* C28's case: create_note raised on a failed persist and the note it made is
\* in the map but not in notes.json.
C28_Witness ==
  /\ last.op = "create_note"
  /\ last.raised = "RuntimeError"
  /\ \E k \in Keys(notes) : k \notin StoredKeys /\ NoteOf(notes, k).title = <<"x">>

\* C28's other cases: update_note raised and the map has the new title where
\* notes.json has the old one; delete_note raised and notes.json still has the
\* note the map has not.
C28_WitnessUpdate ==
  /\ last.op = "update_note"
  /\ last.raised = "RuntimeError"
  /\ \E i \in 1..Len(notes) :
        /\ notes[i].note.title = <<"A", "b">>
        /\ meta.kind = "json"
        /\ \E j \in 1..Len(meta.entries) :
              /\ meta.entries[j].key = notes[i].key
              /\ meta.entries[j].data.title = <<"x">>

C28_WitnessDelete ==
  /\ last.op = "delete_note"
  /\ last.raised = "RuntimeError"
  /\ StoredKeys \ Keys(notes) # {}

\* The file export_notes writes for a store.
ExportOf(ns) ==
  [i \in 1..Len(ns) |->
     [key |-> ns[i].key,
      data |-> [to_dict(ns[i].note) EXCEPT !.content = ns[i].note.content]]]

\* Importing the export of the store into an empty store returns the number of
\* notes exported and gives a store with the same ids and, id by id, the same
\* title, content, tags, created_at and updated_at.
RoundTrip ==
  \A uuid \in ImportUuids :
    (exported = Some(ExportOf(notes)) /\ import_elsewhere(uuid)) =>
      /\ last'.raised = ""
      /\ last'.ret = Len(notes)
      /\ Keys(notes') = Keys(notes)
      /\ \A k \in Keys(notes) : NoteOf(notes', k) = NoteOf(notes, k)

\* C29: export then import into an empty store is a round trip for any store,
\* and export_notes leaves the map and the store's own files as they are.
C29_RoundTrip ==
  [][/\ export_notes => notes' = notes /\ meta' = meta /\ files' = files
     /\ RoundTrip]_vars

\* C29 for the stores whose keys are the note_ids of their notes and whose
\* contents are strings.
C29_RoundTripOfOwnNotes ==
  [][(\A i \in 1..Len(notes) :
        notes[i].key = notes[i].note.note_id /\ IsStr(notes[i].note.content))
     => RoundTrip]_vars

\* C30: list_notes(tags=[]) returns no notes, with or without a search query.
C30_EmptyTagListGivesNothing ==
  [][\A search_query \in Optional(Queries) :
       list_notes(Some(<<>>), search_query) =>
         last'.raised = "" /\ last'.ret = <<>>]_vars

====
